---- MODULE Spec2Model ----
(***************************************************************************)
(* Model of the mashup pipeline of src/mashup_core.py: create_mashup and   *)
(* the three stages it drives, _download_videos, _trim_audio and           *)
(* _merge_audio.  The collaborators (the yt-dlp search/download client,    *)
(* the moviepy media reader/writer, the filesystem) are modelled by the    *)
(* outcomes the code distinguishes: what a call returns, which files it    *)
(* leaves behind, and whether it raises.                                   *)
(***************************************************************************)
EXTENDS Integers, Sequences, FiniteSets, TLC

\* ---------------------------------------------------------------- bounds
\* The videos the platform can return for a query are identified 1..NumVideos.
NumVideos == 12
\* Per strategy pass, only the first MaxBadPos entries of the search result
\* may come back empty (None) or without a file written by the pass.
MaxBadPos == 2
\* An injected media failure hits one of the first MaxFaultIdx items of a stage.
MaxFaultIdx == 2
\* Singer names are strings of at most MaxNameLen characters.
MaxNameLen == 2
\* Audio tracks last 0, ShortTrack or LongTrack seconds.
ShortTrack == 10
LongTrack == 30

\* ------------------------------------------------------ program constants
MinVideos == 10
MinDuration == 20
SearchFactor == 4
SearchExtra == 10

Videos == 1..NumVideos
None == "None"

Max(a, b) == IF a >= b THEN a ELSE b
Min(a, b) == IF a <= b THEN a ELSE b

\* ------------------------------------------------------------- exceptions
\* An exception: its Python type, which failure it is, the count it reports
\* (InsufficientVideos) and, for a wrapped one, the message it wraps.
Exc(type, kind, n, cause) == [type |-> type, kind |-> kind, n |-> n, cause |-> cause]
NoExc == Exc("none", "", 0, "")
MashupError(kind, n) == Exc("MashupError", kind, n, "")

\* except MashupError: raise / except Exception as exc: raise MashupError(...{exc})
ExceptClause(e) ==
    IF e.type = "MashupError" THEN e
    ELSE Exc("MashupError", "PipelineFailure", 0, e.kind)

\* ------------------------------------------------------------------ input
Chars == {" ", "a"}
\* Names of at most MaxNameLen characters with at most one letter.
Names == {s \in UNION {[1..k -> Chars] : k \in 0..MaxNameLen} :
            Cardinality({i \in DOMAIN s : s[i] = "a"}) <= 1}

RECURSIVE lstrip(_)
lstrip(s) == IF s # <<>> /\ Head(s) = " " THEN lstrip(Tail(s)) ELSE s
RECURSIVE rstrip(_)
rstrip(s) == IF s # <<>> /\ s[Len(s)] = " " THEN rstrip(SubSeq(s, 1, Len(s) - 1)) ELSE s
strip(s) == rstrip(lstrip(s))

\* Requests ask for a number of videos and a duration at or just above the
\* minimum.
VideoCounts == {MinVideos, MinVideos + 1}
Durations == {MinDuration, MinDuration + 1}
WorkDirs == {None, "persist"}

\* The three checks of create_mashup, in order.
EmptySinger(singer_name) == strip(singer_name) = <<>>
TooFewVideos_lt(number_of_videos) == number_of_videos < MinVideos
TooFewVideos(number_of_videos) == number_of_videos <= MinVideos
TooShort(audio_duration_sec) == audio_duration_sec <= MinDuration

\* ------------------------------------------------- the download client
\* max(count * 4, count + 10), line 51.
search_count(count) == Max(count * SearchFactor, count + SearchExtra)

\* cookie_attempts, lines 72-77.
cookie_attempts == <<None, "chrome", "edge", "firefox">>

\* ydl_opts of one pass, lines 82-86.
ydl_opts(cookie_file, cookies_from_browser) ==
    [cookiefile |-> IF cookie_file # "" THEN cookie_file ELSE None,
     cookiesfrombrowser |-> cookies_from_browser]

\* What extract_info(query, download=True) can return: the candidates 1..n in
\* ascending or descending discovery order; each entry is None (present =
\* FALSE), or an entry whose file this pass did not write, or an entry whose
\* file this pass wrote.  Only the first MaxBadPos entries can be bad.
EntryStatus == {"ok", "none", "nofile"}
SearchSizes(count) == {n \in {0, count - 1, NumVideos} : 0 <= n /\ n <= search_count(count)}
MakeEntries(n, desc, st) ==
    [i \in 1..n |->
        LET s == IF i \in DOMAIN st THEN st[i] ELSE "ok"
        IN  [id |-> IF desc THEN n + 1 - i ELSE i,
             present |-> s # "none",
             wrote |-> s = "ok"]]
SearchResults(count) ==
    {MakeEntries(n, desc, st) :
        n \in SearchSizes(count), desc \in BOOLEAN,
        st \in [1..MaxBadPos -> EntryStatus]}

\* The files a pass writes into videos_dir.
Written(entries) == {entries[i].id : i \in {j \in DOMAIN entries : entries[j].wrote}}

\* CollectDownloaded without the test of line 102.
RECURSIVE CollectDownloaded_unchecked(_, _)
CollectDownloaded_unchecked(entries, files) ==
    IF entries = <<>> THEN <<>>
    ELSE IF ~Head(entries).present THEN CollectDownloaded_unchecked(Tail(entries), files)
    ELSE <<Head(entries).id>> \o CollectDownloaded_unchecked(Tail(entries), files)

\* CollectDownloaded leaving the loop at the first entry it cannot take.
RECURSIVE CollectDownloaded_break(_, _)
CollectDownloaded_break(entries, files) ==
    IF entries = <<>> THEN <<>>
    ELSE IF ~Head(entries).present \/ Head(entries).id \notin files THEN <<>>
    ELSE <<Head(entries).id>> \o CollectDownloaded_break(Tail(entries), files)

\* Lines 93-103: the entries that are not None and whose file exists.
RECURSIVE CollectDownloaded(_, _)
CollectDownloaded(entries, files) ==
    IF entries = <<>> THEN <<>>
    ELSE LET entry == Head(entries)
             rest == CollectDownloaded(Tail(entries), files)
         IN  IF ~entry.present THEN rest
             ELSE IF entry.id \in files THEN <<entry.id>> \o rest
             ELSE rest

\* FirstCount without the slice.
FirstCount_all(downloaded, count) == downloaded
\* downloaded[:count], line 115.
FirstCount(downloaded, count) == SubSeq(downloaded, 1, Min(count, Len(downloaded)))

\* ------------------------------------------------------ the media library
\* A downloaded video's audio track: absent (video_clip.audio is None), or of
\* some duration in seconds.
Tracks == {[audio |-> FALSE, duration |-> 0]} \cup
          {[audio |-> TRUE, duration |-> d] : d \in {0, ShortTrack, LongTrack}}
FullTrack == [audio |-> TRUE, duration |-> LongTrack]
\* The media of the videos: one kind of track for the odd ids, one for the
\* even; all alike, or the even ones with a full-length track.
MediaProfiles ==
    {[v \in Videos |-> IF v % 2 = 1 THEN a ELSE FullTrack] : a \in Tracks}
    \cup {[v \in Videos |-> a] : a \in Tracks}

\* An injected failure of a media or file call: which call, on which item.
NoFault == [op |-> "none", at |-> 0]
MediaFaults == {NoFault} \cup
    {[op |-> o, at |-> k] : o \in {"open", "write"}, k \in 1..MaxFaultIdx}

\* float(video_clip.audio.duration or 0), line 126.
max_duration(track) == track.duration
\* end_time without the clamp.
end_time_unclamped(seconds, maxdur) == seconds
\* min(float(seconds), max_duration), line 127.
end_time(seconds, maxdur) == Min(seconds, maxdur)
\* EmptyWindow letting a window of length zero through.
EmptyWindow_negative(end) == end < 0
\* The test of line 128.
EmptyWindow(end) == end <= 0

\* The loop of _trim_audio, lines 120-138, from item idx on: the clips written
\* (track_<idx>, with the video it came from and its length) and the
\* exception that ended the loop, if one did.
RECURSIVE TrimLoop(_, _, _, _, _)
TrimLoop(video_paths, idx, seconds, media, fault) ==
    IF idx > Len(video_paths) THEN [trimmed |-> <<>>, error |-> NoExc]
    ELSE LET track == media[video_paths[idx]]
             end == end_time(seconds, max_duration(track))
             rest == TrimLoop(video_paths, idx + 1, seconds, media, fault)
         IN  IF fault = [op |-> "open", at |-> idx]
             THEN [trimmed |-> <<>>, error |-> Exc("OSError", "VideoFileClip", 0, "")]
             ELSE IF ~track.audio THEN rest
             ELSE IF EmptyWindow(end) THEN rest
             ELSE IF fault = [op |-> "write", at |-> idx]
             THEN [trimmed |-> <<>>, error |-> Exc("OSError", "write_audiofile track", 0, "")]
             ELSE [trimmed |-> <<[idx |-> idx,
                                  content |-> <<[src |-> video_paths[idx], dur |-> end]>>]>>
                               \o rest.trimmed,
                   error |-> rest.error]

\* NothingTrimmed without the check.
NothingTrimmed_never(trimmed_files) == FALSE
\* Lines 140-142: _trim_audio raises when nothing was trimmed.
NothingTrimmed(trimmed_files) == trimmed_files = <<>>

\* AudioFileClip(str(path)): the content of the file track_<path>.
AudioFileClip(files, path) == (CHOOSE f \in files : f.idx = path).content

\* concatenate_audioclips putting the clips in the opposite order.
RECURSIVE concatenate_reversed(_)
concatenate_reversed(clips) ==
    IF clips = <<>> THEN <<>>
    ELSE concatenate_reversed(Tail(clips)) \o Head(clips)

\* concatenate_audioclips(clips), line 151: the clips one after the other.
RECURSIVE concatenate_audioclips(_)
concatenate_audioclips(clips) ==
    IF clips = <<>> THEN <<>>
    ELSE Head(clips) \o concatenate_audioclips(Tail(clips))

\* The playable length of an audio content.
RECURSIVE Duration(_)
Duration(content) ==
    IF content = <<>> THEN 0 ELSE Head(content).dur + Duration(Tail(content))

VARIABLES
    pc,             \* position in create_mashup
    req,            \* the arguments of the call
    exc,            \* the exception raised to the caller (NoExc: none)
    path_probe,     \* what shutil.which("ffmpeg") returned ("unprobed": not called)
    ffmpeg_bin,     \* the resolved transcoder
    env_ffmpeg,     \* os.environ["IMAGEIO_FFMPEG_EXE"]
    fallback_calls, \* calls of imageio_ffmpeg.get_ffmpeg_exe
    temp_root,      \* the temporary directory create_mashup made, or None
    work_dir,       \* the working directory in use, or None
    dirs,           \* the directories that exist
    video_files,    \* per working root, the videos stored in its videos/
    dest_file,      \* the file at the destination path
    cookie_file,    \* YTDLP_COOKIE_FILE as _download_videos read it
    attempt,        \* index into cookie_attempts of the next pass
    tried,          \* the ydl_opts of the passes made so far
    search_calls,   \* calls of extract_info
    downloaded,     \* the list `downloaded` of _download_videos
    last_pass,      \* whether the latest extract_info raised, and the entries
                    \* the most recent extract_info that returned gave
    videos,         \* the list _download_videos returned
    media,          \* the audio track of each video, as the media library sees it
    audio_files,    \* per working root, the trimmed tracks stored in its audios/
    clipped_audios, \* the list _trim_audio returned (paths track_<idx>)
    merge_calls,    \* calls of _merge_audio
    merged_file,    \* per working root, the merged file
    open_handles,   \* media readers opened and not closed
    steps,          \* the steps of create_mashup entered so far, in order
    requests,       \* two concurrent calls: each one's position, arguments,
                    \* work_dir and temp_root
    shared_fs,      \* two concurrent calls: the working directories that exist and
                    \* the intermediate files in them, each with the call that wrote it
    environ,        \* two concurrent calls: os.environ["IMAGEIO_FFMPEG_EXE"] and
                    \* the call that set it
    crossings       \* two concurrent calls: each time one call read, overwrote or
                    \* deleted what the other wrote

seqVars == <<pc, req, exc, path_probe, ffmpeg_bin, env_ffmpeg, fallback_calls, temp_root,
          work_dir, dirs, video_files, dest_file, cookie_file, attempt, tried,
          search_calls, downloaded, last_pass, videos, media, audio_files,
          clipped_audios, merge_calls, merged_file, open_handles, steps>>
concVars == <<requests, shared_fs, environ, crossings>>
vars == <<seqVars, concVars>>

toolVars == <<path_probe, ffmpeg_bin, env_ffmpeg, fallback_calls>>
fsVars == <<temp_root, work_dir, dirs, video_files, dest_file>>
audioVars == <<media, audio_files, clipped_audios, merge_calls, merged_file, open_handles>>
dlVars == <<cookie_file, attempt, tried, search_calls, downloaded, last_pass, videos>>

NoReq == [singer_name |-> <<>>, number_of_videos |-> 0, audio_duration_sec |-> 0,
          base_work_dir |-> None]
NoPass == [aborted |-> FALSE, entries |-> <<>>]
NoFile == [exists |-> FALSE, content |-> <<>>]
Roots == {"tmp", "persist"}

Absent == [state |-> "absent", content |-> <<>>]
OldFile == [state |-> "old", content |-> <<>>]

\* The two calls of the concurrent runs.
Reqs == {"r1", "r2"}
NoRequest == [pc |-> "idle", singer |-> "", base |-> None, work |-> None, temp |-> None]

Init ==
    /\ requests = [r \in Reqs |-> NoRequest]
    /\ shared_fs = [dirs |-> {}, files |-> {}]
    /\ environ = [value |-> "unset", writer |-> None]
    /\ crossings = {}
    /\ pc = "idle"
    /\ req = NoReq
    /\ exc = NoExc
    /\ path_probe = "unprobed"
    /\ ffmpeg_bin = None
    /\ env_ffmpeg = "unset"
    /\ fallback_calls = 0
    /\ temp_root = None
    /\ work_dir = None
    /\ video_files = [r \in Roots |-> {}]
    /\ dirs = {}
    /\ dest_file \in {Absent, OldFile}
    /\ cookie_file = ""
    /\ attempt = 1
    /\ tried = <<>>
    /\ search_calls = 0
    /\ downloaded = <<>>
    /\ last_pass = NoPass
    /\ videos = <<>>
    /\ media = [v \in Videos |-> [audio |-> FALSE, duration |-> 0]]
    /\ audio_files = [r \in Roots |-> {}]
    /\ clipped_audios = <<>>
    /\ merge_calls = 0
    /\ merged_file = [r \in Roots |-> NoFile]
    /\ open_handles = 0
    /\ steps = <<>>

\* create_mashup, lines 167-174: strip the name and validate the request.
Validate(singer_name, number_of_videos, audio_duration_sec, base_work_dir) ==
    /\ pc = "idle"
    /\ UNCHANGED concVars
    /\ steps' = Append(steps, "validate")
    /\ req' = [singer_name |-> strip(singer_name),
               number_of_videos |-> number_of_videos,
               audio_duration_sec |-> audio_duration_sec,
               base_work_dir |-> base_work_dir]
    /\ IF EmptySinger(singer_name)
       THEN /\ exc' = MashupError("InvalidRequest", 0)
            /\ pc' = "raised"
       ELSE IF TooFewVideos(number_of_videos)
       THEN /\ exc' = MashupError("InvalidRequest", MinVideos)
            /\ pc' = "raised"
       ELSE IF TooShort(audio_duration_sec)
       THEN /\ exc' = MashupError("InvalidRequest", MinDuration)
            /\ pc' = "raised"
       ELSE /\ exc' = exc
            /\ pc' = "resolve_tool"
    /\ UNCHANGED <<toolVars, fsVars, dlVars, audioVars>>

\* os.environ.setdefault
setdefault(env, value) == IF env = "unset" THEN value ELSE env

\* NeedsFallback consulting the bundled resolver whatever the probe found.
NeedsFallback_always(which) == TRUE
\* The test of line 176.
NeedsFallback(which) == which = None

\* create_mashup, lines 175-185: shutil.which, then the bundled fallback.
ResolveTool(which, bundled) ==
    /\ pc = "resolve_tool"
    /\ UNCHANGED concVars
    /\ steps' = Append(steps, "resolve_tool")
    /\ path_probe' = which
    /\ IF ~NeedsFallback(which)
       THEN /\ ffmpeg_bin' = which
            /\ UNCHANGED <<env_ffmpeg, fallback_calls, exc>>
            /\ pc' = "resolve_dest"
       ELSE /\ fallback_calls' = fallback_calls + 1
            /\ IF bundled # None
               THEN /\ ffmpeg_bin' = bundled
                    /\ env_ffmpeg' = setdefault(env_ffmpeg, bundled)
                    /\ exc' = exc
                    /\ pc' = "resolve_dest"
               ELSE /\ ffmpeg_bin' = None
                    /\ env_ffmpeg' = env_ffmpeg
                    /\ exc' = MashupError("ToolUnavailable", 0)
                    /\ pc' = "raised"
    /\ UNCHANGED <<req, fsVars, dlVars, audioVars>>

\* ResolveDest opening the destination file for writing as it resolves it.
ResolveDest_touch(fails) ==
    /\ pc = "resolve_dest"
    /\ UNCHANGED concVars
    /\ steps' = Append(steps, "resolve_dest")
    /\ exc' = IF fails THEN Exc("OSError", "mkdir target_output.parent", 0, "") ELSE exc
    /\ pc' = IF fails THEN "raised" ELSE "make_work"
    /\ dirs' = IF fails THEN dirs ELSE dirs \cup {<<"out">>}
    /\ dest_file' = IF fails THEN dest_file ELSE [state |-> "partial", content |-> <<>>]
    /\ UNCHANGED <<req, toolVars, temp_root, work_dir, video_files, dlVars, audioVars>>

\* create_mashup, lines 187-188: resolve the destination and make its parent
\* directories.  Not inside the try block: a failure leaves as it is.
ResolveDest(fails) ==
    /\ pc = "resolve_dest"
    /\ UNCHANGED concVars
    /\ steps' = Append(steps, "resolve_dest")
    /\ IF fails
       THEN /\ exc' = Exc("OSError", "mkdir target_output.parent", 0, "")
            /\ pc' = "raised"
            /\ dirs' = dirs
       ELSE /\ exc' = exc
            /\ pc' = "make_work"
            /\ dirs' = dirs \cup {<<"out">>}
    /\ UNCHANGED <<req, toolVars, temp_root, work_dir, video_files, dest_file, dlVars, audioVars>>

WorkFaults == {"none", "mkdtemp", "work_dir", "videos_dir", "audios_dir"}

\* create_mashup, lines 190-200: the working area.  Not inside the try block
\* either.  `fault` names the call that raises, if any.
MakeWorkArea(fault) ==
    /\ pc = "make_work"
    /\ UNCHANGED concVars
    /\ steps' = Append(steps, "work_area")
    /\ fault = "mkdtemp" => req.base_work_dir = None
    /\ fault = "work_dir" => req.base_work_dir # None
    /\ LET made == req.base_work_dir = None /\ fault # "mkdtemp"
           root == IF req.base_work_dir = None THEN "tmp" ELSE req.base_work_dir
           d1 == IF fault \in {"mkdtemp", "work_dir"} THEN dirs ELSE dirs \cup {<<root>>}
           d2 == IF fault \in {"mkdtemp", "work_dir", "videos_dir"} THEN d1
                 ELSE d1 \cup {<<root, "videos">>}
           d3 == IF fault = "none" THEN d2 \cup {<<root, "audios">>} ELSE d2
       IN  /\ temp_root' = IF made THEN "tmp" ELSE None
           /\ work_dir' = IF fault = "mkdtemp" THEN None ELSE root
           /\ dirs' = d3
           /\ IF fault = "none"
              THEN /\ exc' = exc
                   /\ pc' = "download_init"
              ELSE /\ exc' = Exc("OSError", fault, 0, "")
                   /\ pc' = "raised"
    /\ UNCHANGED <<req, toolVars, video_files, dest_file, dlVars, audioVars>>

\* Lines 203-204 of create_mashup, then lines 51-79 of _download_videos.
DownloadInit(cookie_env) ==
    /\ pc = "download_init"
    /\ UNCHANGED concVars
    /\ steps' = Append(steps, "acquire")
    /\ env_ffmpeg' = IF ffmpeg_bin # None THEN setdefault(env_ffmpeg, ffmpeg_bin)
                     ELSE env_ffmpeg
    /\ cookie_file' = cookie_env
    /\ downloaded' = <<>>
    /\ attempt' = 1
    /\ pc' = "pass"
    /\ UNCHANGED <<req, exc, path_probe, ffmpeg_bin, fallback_calls, fsVars, tried,
                   search_calls, last_pass, videos, audioVars>>

\* AfterPass without the break of lines 107-108.
AfterPass_exhaust(done) == IF attempt = Len(cookie_attempts) THEN "download_finish" ELSE "pass"
\* After a pass: the next strategy, or the end of the loop.
AfterPass(done) == IF done \/ attempt = Len(cookie_attempts) THEN "download_finish" ELSE "pass"

\* One iteration of the loop of lines 81-108 whose extract_info raises
\* DownloadError: `continue`, with `downloaded` as it was.
PassDownloadError ==
    /\ pc = "pass"
    /\ UNCHANGED concVars
    /\ steps' = steps
    /\ tried' = Append(tried, ydl_opts(cookie_file, cookie_attempts[attempt]))
    /\ search_calls' = search_calls + 1
    /\ last_pass' = [aborted |-> TRUE, entries |-> last_pass.entries]
    /\ attempt' = attempt + 1
    /\ pc' = AfterPass(FALSE)
    /\ UNCHANGED <<req, exc, toolVars, fsVars, cookie_file, downloaded, videos, audioVars>>

\* One iteration whose extract_info raises something else: it leaves
\* _download_videos and is caught by create_mashup, lines 213-214.
PassOtherError ==
    /\ pc = "pass"
    /\ UNCHANGED concVars
    /\ steps' = steps
    /\ tried' = Append(tried, ydl_opts(cookie_file, cookie_attempts[attempt]))
    /\ search_calls' = search_calls + 1
    /\ last_pass' = [aborted |-> TRUE, entries |-> last_pass.entries]
    /\ exc' = ExceptClause(Exc("Exception", "extract_info", 0, ""))
    /\ pc' = "finally"
    /\ UNCHANGED <<req, toolVars, fsVars, cookie_file, attempt, downloaded, videos, audioVars>>

\* One iteration whose extract_info returns `entries`, lines 89-108.
PassEntries(entries) ==
    /\ pc = "pass"
    /\ UNCHANGED concVars
    /\ steps' = steps
    /\ LET files == video_files[work_dir] \cup Written(entries)
           got == CollectDownloaded(entries, files)
       IN  /\ video_files' = [video_files EXCEPT ![work_dir] = files]
           /\ downloaded' = got
           /\ pc' = AfterPass(Len(got) >= req.number_of_videos)
    /\ tried' = Append(tried, ydl_opts(cookie_file, cookie_attempts[attempt]))
    /\ search_calls' = search_calls + 1
    /\ last_pass' = [aborted |-> FALSE, entries |-> entries]
    /\ attempt' = attempt + 1
    /\ UNCHANGED <<req, exc, toolVars, temp_root, work_dir, dirs, dest_file,
                   cookie_file, videos, audioVars>>

\* DownloadFinish handing on whatever the last pass collected.
DownloadFinish_lenient ==
    /\ pc = "download_finish"
    /\ UNCHANGED concVars
    /\ videos' = FirstCount(downloaded, req.number_of_videos)
    /\ pc' = "trim"
    /\ cookie_file' = ""
    /\ attempt' = 1
    /\ tried' = <<>>
    /\ downloaded' = <<>>
    /\ last_pass' = NoPass
    /\ UNCHANGED <<req, exc, toolVars, fsVars, search_calls, audioVars, steps>>

\* _download_videos, lines 110-115: the raise or the return, either of which
\* ends the call and with it its local variables.
DownloadFinish ==
    /\ pc = "download_finish"
    /\ UNCHANGED concVars
    /\ steps' = steps
    /\ IF Len(downloaded) < req.number_of_videos
       THEN /\ exc' = ExceptClause(MashupError("InsufficientVideos", Len(downloaded)))
            /\ pc' = "finally"
            /\ videos' = videos
       ELSE /\ videos' = FirstCount(downloaded, req.number_of_videos)
            /\ pc' = "trim"
            /\ exc' = exc
    /\ cookie_file' = ""
    /\ attempt' = 1
    /\ tried' = <<>>
    /\ downloaded' = <<>>
    /\ last_pass' = NoPass
    /\ UNCHANGED <<req, toolVars, fsVars, search_calls, audioVars>>

\* _trim_audio, lines 118-142, called at line 206.
TrimAudio(m, fault) ==
    /\ pc = "trim"
    /\ UNCHANGED concVars
    /\ steps' = Append(steps, "extract")
    /\ LET r == TrimLoop(videos, 1, req.audio_duration_sec, m, fault)
           paths == [i \in DOMAIN r.trimmed |-> r.trimmed[i].idx]
           written == {r.trimmed[i] : i \in DOMAIN r.trimmed}
       IN  /\ fault.op # "none" => r.error # NoExc
           /\ media' = m
           /\ audio_files' = [audio_files EXCEPT ![work_dir] = written]
           /\ IF r.error # NoExc
              THEN /\ exc' = ExceptClause(r.error)
                   /\ pc' = "finally"
                   /\ clipped_audios' = clipped_audios
              ELSE IF NothingTrimmed(paths)
              THEN /\ exc' = ExceptClause(MashupError("NoExtractableAudio", 0))
                   /\ pc' = "finally"
                   /\ clipped_audios' = clipped_audios
              ELSE /\ exc' = exc
                   /\ pc' = "merge"
                   /\ clipped_audios' = paths
    /\ UNCHANGED <<req, toolVars, fsVars, dlVars, merge_calls, merged_file, open_handles>>

\* The list comprehension of line 148, from item k on: the clips opened and
\* whether opening one of them raised.
RECURSIVE OpenClips(_, _, _, _)
OpenClips(files, audio_paths, k, fault) ==
    IF k > Len(audio_paths) THEN [clips |-> <<>>, failed |-> FALSE]
    ELSE IF fault = [op |-> "open", at |-> k] THEN [clips |-> <<>>, failed |-> TRUE]
    ELSE LET rest == OpenClips(files, audio_paths, k + 1, fault)
         IN  [clips |-> <<AudioFileClip(files, audio_paths[k])>> \o rest.clips,
              failed |-> rest.failed]

\* NoClips that never finds the list empty.
NoClips_never(clips) == FALSE
\* `not clips`, line 149.
NoClips(clips) == clips = <<>>

\* _merge_audio, lines 145-157.  `clips` is assigned only when the whole
\* comprehension of line 148 succeeded, and the finally clause closes the
\* items of `clips`; `leaked` counts the readers opened and never closed.
merge_audio(files, audio_paths, fault) ==
    LET opened == OpenClips(files, audio_paths, 1, fault)
        clips == IF opened.failed THEN <<>> ELSE opened.clips
        error == IF opened.failed THEN Exc("OSError", "AudioFileClip", 0, "")
                 ELSE IF NoClips(clips) THEN MashupError("EmptyClipSet", 0)
                 ELSE IF fault.op = "write"
                 THEN Exc("OSError", "write_audiofile merged", 0, "")
                 ELSE NoExc
    IN  [error |-> error,
         output |-> IF error = NoExc
                    THEN [exists |-> TRUE, content |-> concatenate_audioclips(clips)]
                    ELSE NoFile,
         leaked |-> Len(opened.clips) - Len(clips)]

\* _merge_audio called at line 208.
MergeAudio(fault) ==
    /\ pc = "merge"
    /\ UNCHANGED concVars
    /\ steps' = Append(steps, "assemble")
    /\ fault.op = "write" => fault.at = 1
    /\ fault.op = "open" => fault.at <= Len(clipped_audios)
    /\ merge_calls' = merge_calls + 1
    /\ LET r == merge_audio(audio_files[work_dir], clipped_audios, fault)
       IN  /\ open_handles' = open_handles + r.leaked
           /\ IF r.error # NoExc
              THEN /\ exc' = ExceptClause(r.error)
                   /\ pc' = "finally"
                   /\ merged_file' = merged_file
              ELSE /\ exc' = exc
                   /\ pc' = "copy"
                   /\ merged_file' = [merged_file EXCEPT ![work_dir] = r.output]
    /\ UNCHANGED <<req, toolVars, fsVars, dlVars, media, audio_files, clipped_audios>>

\* _merge_audio called by itself, outside create_mashup, with the list
\* `audio_paths` and an output file of the caller's (kept under "persist").
MergeDirect(audio_paths) ==
    /\ pc = "idle"
    /\ UNCHANGED concVars
    /\ merge_calls' = merge_calls + 1
    /\ LET r == merge_audio(audio_files["persist"], audio_paths, NoFault)
       IN  /\ open_handles' = open_handles + r.leaked
           /\ exc' = r.error
           /\ pc' = IF r.error = NoExc THEN "merge_returned" ELSE "merge_raised"
           /\ merged_file' = IF r.error = NoExc
                             THEN [merged_file EXCEPT !["persist"] = r.output]
                             ELSE merged_file
    /\ UNCHANGED <<req, toolVars, fsVars, dlVars, media, audio_files, clipped_audios, steps>>

\* shutil.copy2(merged_path, target_output), line 209, and the return of
\* line 210.  The copy can fail before it touches the destination, or after
\* it has opened (truncated) it and written a part.
CopyToDest(outcome) ==
    /\ pc = "copy"
    /\ UNCHANGED concVars
    /\ steps' = Append(steps, "copy")
    /\ IF outcome = "ok"
       THEN /\ dest_file' = [state |-> "complete", content |-> merged_file[work_dir].content]
            /\ exc' = exc
       ELSE /\ dest_file' = IF outcome = "partial"
                            THEN [state |-> "partial", content |-> <<>>]
                            ELSE dest_file
            /\ exc' = ExceptClause(Exc("OSError", "copy2", 0, ""))
    /\ pc' = "finally"
    /\ UNCHANGED <<req, toolVars, temp_root, work_dir, dirs, video_files, dlVars, audioVars>>

\* shutil.rmtree(temp_root, ignore_errors=True)
rmtree(ds, root) == {d \in ds : Head(d) # root}

\* CleanupRoot taking the working directory in use.
CleanupRoot_work(temp_root_, work_dir_) == work_dir_
\* The directory the finally clause removes, lines 216-217.
CleanupRoot(temp_root_, work_dir_) == temp_root_

\* create_mashup, lines 215-217, then the return or the raise.
Finally ==
    /\ pc = "finally"
    /\ UNCHANGED concVars
    /\ steps' = Append(steps, "cleanup")
    /\ LET root == CleanupRoot(temp_root, work_dir)
       IN  IF root # None /\ <<root>> \in dirs
           THEN /\ dirs' = rmtree(dirs, root)
                /\ video_files' = [video_files EXCEPT ![root] = {}]
                /\ audio_files' = [audio_files EXCEPT ![root] = {}]
                /\ merged_file' = [merged_file EXCEPT ![root] = NoFile]
           ELSE UNCHANGED <<dirs, video_files, audio_files, merged_file>>
    /\ pc' = IF exc = NoExc THEN "returned" ELSE "raised"
    /\ UNCHANGED <<req, exc, toolVars, temp_root, work_dir, dest_file, dlVars,
                   media, clipped_audios, merge_calls, open_handles>>

Next ==
    \/ \E s \in Names, n \in VideoCounts, d \in Durations, b \in WorkDirs :
         Validate(s, n, d, b)
    \/ \E w \in {None, "/usr/bin/ffmpeg"}, b \in {None, "bundled"} : ResolveTool(w, b)
    \/ \E f \in BOOLEAN : ResolveDest(f)
    \/ \E f \in WorkFaults : MakeWorkArea(f)
    \/ \E c \in {"", "cookies.txt"} : DownloadInit(c)
    \/ PassDownloadError
    \/ PassOtherError
    \/ \E e \in SearchResults(req.number_of_videos) : PassEntries(e)
    \/ DownloadFinish
    \/ \E m \in MediaProfiles, f \in MediaFaults : TrimAudio(m, f)
    \/ \E f \in MediaFaults : MergeAudio(f)
    \/ \E a \in {<<>>} : MergeDirect(a)
    \/ \E o \in {"ok", "unopened", "partial"} : CopyToDest(o)
    \/ Finally

Spec == Init /\ [][Next]_vars

\* ------------------------------------- two concurrent calls of create_mashup
\* The calls run in threads of one process (the web front-end serves each
\* POST in its own thread): they share the file system and os.environ.  One
\* step of a call is one of the actions below; the steps of the two calls
\* interleave in any order.
Singers == {"a", "b"}
\* The directories tempfile.mkdtemp can make.
TempNames == {"tmp1", "tmp2"}
\* base_work_dir as index() of the web front-end passes it: the "work"
\* directory of the request's own TemporaryDirectory.
WebDir == [r \in Reqs |-> IF r = "r1" THEN "web1" ELSE "web2"]
\* base_work_dir of a call: none, a directory of the caller's choice (the
\* same one for whoever chooses it), or the web front-end's.
BaseDirs(r) == {None, "persist", WebDir[r]}

\* tempfile.mkdtemp(prefix="mashup_"), line 193: a directory that did not
\* exist yet.
mkdtemp(existing) == {n \in TempNames : n \notin existing}

FileAt(fs, dir, kind, name) ==
    {f \in fs.files : f.dir = dir /\ f.kind = kind /\ f.name = name}
\* The crossings call r makes by doing `what` to the files `found`.
Crossed(r, what, found) ==
    {[by |-> r, what |-> what, owner |-> f.owner] : f \in {g \in found : g.owner # r}}
WriteFile(fs, r, dir, kind, name) ==
    [fs EXCEPT !.files = (@ \ FileAt(fs, dir, kind, name))
                            \cup {[dir |-> dir, kind |-> kind, name |-> name, owner |-> r]}]

\* os.environ.setdefault("IMAGEIO_FFMPEG_EXE", value) by call r: the new
\* entry, and the crossing when r finds the entry the other call set.
EnvSetDefault(r, value) ==
    IF environ.value = "unset"
    THEN [env |-> [value |-> value, writer |-> r], crossed |-> {}]
    ELSE [env |-> environ,
          crossed |-> IF environ.writer # r
                      THEN {[by |-> r, what |-> "env", owner |-> environ.writer]}
                      ELSE {}]

\* Lines 167-188: validation passes and the transcoder is found, on the
\* search path or by the bundled resolver (then line 181 registers it).
CStart(r, singer, base, found) ==
    /\ requests[r].pc = "idle"
    /\ requests' = [requests EXCEPT ![r] =
           [pc |-> "work_area", singer |-> singer, base |-> base, work |-> None, temp |-> None]]
    /\ IF found = "bundled"
       THEN LET e == EnvSetDefault(r, "ffmpeg")
            IN  environ' = e.env /\ crossings' = crossings \cup e.crossed
       ELSE UNCHANGED <<environ, crossings>>
    /\ UNCHANGED <<shared_fs, seqVars>>

\* Lines 190-200: the working area, a fresh temporary directory (`name`) or
\* the directory the caller gave.
CWorkArea(r, name) ==
    /\ requests[r].pc = "work_area"
    /\ IF requests[r].base = None
       THEN /\ name \in mkdtemp(shared_fs.dirs)
            /\ requests' = [requests EXCEPT ![r].pc = "download", ![r].work = name,
                                            ![r].temp = name]
            /\ shared_fs' = [shared_fs EXCEPT !.dirs = @ \cup {name}]
       ELSE /\ name = requests[r].base
            /\ requests' = [requests EXCEPT ![r].pc = "download", ![r].work = name]
            /\ shared_fs' = [shared_fs EXCEPT !.dirs = @ \cup {name}]
    /\ UNCHANGED <<environ, crossings, seqVars>>

\* Lines 203-205: line 204 registers the transcoder, then _download_videos
\* stores the singer's videos in work_dir/videos (yt-dlp keeps a file that is
\* already there, and line 102 takes it for downloaded) or fails.
CDownload(r, ok) ==
    /\ requests[r].pc = "download"
    /\ LET me == requests[r]
           e == EnvSetDefault(r, "ffmpeg")
           there == FileAt(shared_fs, me.work, "videos", me.singer)
       IN  /\ environ' = e.env
           /\ IF ok
              THEN /\ shared_fs' = IF there = {}
                                   THEN WriteFile(shared_fs, r, me.work, "videos", me.singer)
                                   ELSE shared_fs
                   /\ crossings' = crossings \cup e.crossed \cup Crossed(r, "read", there)
                   /\ requests' = [requests EXCEPT ![r].pc = "trim"]
              ELSE /\ shared_fs' = shared_fs
                   /\ crossings' = crossings \cup e.crossed
                   /\ requests' = [requests EXCEPT ![r].pc = "cleanup"]
    /\ UNCHANGED seqVars

\* Line 206: _trim_audio reads the videos and writes work_dir/audios/track_01
\* (ffmpeg overwrites); it fails when the video is no longer there.
CTrim(r) ==
    /\ requests[r].pc = "trim"
    /\ LET me == requests[r]
           video == FileAt(shared_fs, me.work, "videos", me.singer)
           track == FileAt(shared_fs, me.work, "audios", "track_01")
       IN  IF video = {}
           THEN /\ requests' = [requests EXCEPT ![r].pc = "cleanup"]
                /\ UNCHANGED <<shared_fs, crossings>>
           ELSE /\ requests' = [requests EXCEPT ![r].pc = "merge"]
                /\ shared_fs' = WriteFile(shared_fs, r, me.work, "audios", "track_01")
                /\ crossings' = crossings \cup Crossed(r, "read", video)
                                    \cup Crossed(r, "overwrite", track)
    /\ UNCHANGED <<environ, seqVars>>

\* Lines 207-208: _merge_audio reads the tracks and writes the merged file,
\* named after the output file (the singer's name, as index() names it).
CMerge(r) ==
    /\ requests[r].pc = "merge"
    /\ LET me == requests[r]
           track == FileAt(shared_fs, me.work, "audios", "track_01")
           merged == FileAt(shared_fs, me.work, "merged", me.singer)
       IN  IF track = {}
           THEN /\ requests' = [requests EXCEPT ![r].pc = "cleanup"]
                /\ UNCHANGED <<shared_fs, crossings>>
           ELSE /\ requests' = [requests EXCEPT ![r].pc = "copy"]
                /\ shared_fs' = WriteFile(shared_fs, r, me.work, "merged", me.singer)
                /\ crossings' = crossings \cup Crossed(r, "read", track)
                                    \cup Crossed(r, "overwrite", merged)
    /\ UNCHANGED <<environ, seqVars>>

\* Line 209: shutil.copy2 reads the merged file.
CCopy(r) ==
    /\ requests[r].pc = "copy"
    /\ LET me == requests[r]
           merged == FileAt(shared_fs, me.work, "merged", me.singer)
       IN  /\ requests' = [requests EXCEPT ![r].pc = "cleanup"]
           /\ crossings' = crossings \cup Crossed(r, "read", merged)
    /\ UNCHANGED <<shared_fs, environ, seqVars>>

\* Lines 215-217: rmtree of the temporary directory the call made, if any.
CCleanup(r) ==
    /\ requests[r].pc = "cleanup"
    /\ LET me == requests[r]
           mine == {f \in shared_fs.files : f.dir = me.temp}
       IN  /\ requests' = [requests EXCEPT ![r].pc = "done"]
           /\ IF me.temp # None /\ me.temp \in shared_fs.dirs
              THEN /\ shared_fs' = [dirs |-> shared_fs.dirs \ {me.temp},
                                    files |-> shared_fs.files \ mine]
                   /\ crossings' = crossings \cup Crossed(r, "delete", mine)
              ELSE UNCHANGED <<shared_fs, crossings>>
    /\ UNCHANGED <<environ, seqVars>>

NextConc ==
    \/ \E r \in Reqs, s \in Singers, f \in {"path", "bundled"} :
         \E b \in BaseDirs(r) : CStart(r, s, b, f)
    \/ \E r \in Reqs, n \in TempNames \cup {"persist"} \cup {WebDir[q] : q \in Reqs} :
         CWorkArea(r, n)
    \/ \E r \in Reqs, ok \in BOOLEAN : CDownload(r, ok)
    \/ \E r \in Reqs : CTrim(r)
    \/ \E r \in Reqs : CMerge(r)
    \/ \E r \in Reqs : CCopy(r)
    \/ \E r \in Reqs : CCleanup(r)

SpecConc == Init /\ [][NextConc]_vars

\* ------------------------------------------------------------ properties
Exited == pc \in {"returned", "raised"}

\* The positions of a search result that hold an entry that is not None and
\* whose file is in the videos directory, and the k-th of them.
GoodPos(entries, files) ==
    {p \in DOMAIN entries : entries[p].present /\ entries[p].id \in files}
KthGood(entries, files, k) ==
    CHOOSE p \in GoodPos(entries, files) :
        Cardinality({q \in GoodPos(entries, files) : q <= p}) = k

\* A video has usable audio: an audio track, and a clamped window above zero.
Usable(v) ==
    /\ media[v].audio
    /\ (IF req.audio_duration_sec <= media[v].duration
        THEN req.audio_duration_sec ELSE media[v].duration) > 0
UsableVideos == SelectSeq(videos, Usable)
\* The length a clip cut from video v must have.
ClipLength(v) ==
    IF req.audio_duration_sec <= media[v].duration
    THEN req.audio_duration_sec ELSE media[v].duration
RECURSIVE TotalLength(_)
TotalLength(vs) == IF vs = <<>> THEN 0 ELSE ClipLength(Head(vs)) + TotalLength(Tail(vs))
RECURSIVE FilesLength(_)
FilesLength(files) ==
    IF files = {} THEN 0
    ELSE LET f == CHOOSE x \in files : TRUE
         IN  Duration(f.content) + FilesLength(files \ {f})

\* _trim_audio has run on the videos that _download_videos returned.
TrimRan == videos # <<>> /\ pc \in {"merge", "copy", "finally", "returned", "raised"}
\* ... and no media call of _trim_audio was made to fail.
TrimFaulted == exc.cause \in {"VideoFileClip", "write_audiofile track"}

\* C1: a request with an empty (after trimming) artist name, with
\* number_of_videos <= 10 or with audio_duration_sec <= 20 is rejected with
\* the domain error before any search or download call (none was made, no
\* file was written); a request with a name, 11 videos and 21 seconds passes
\* validation.
C1_InvalidRejectedBeforeSearch ==
    steps # <<>> =>
        /\ (req.singer_name = <<>> \/ req.number_of_videos <= 10
              \/ req.audio_duration_sec <= 20)
           => /\ pc = "raised"
              /\ exc = MashupError("InvalidRequest", exc.n)
              /\ search_calls = 0
              /\ tried = <<>>
              /\ \A r \in Roots : video_files[r] = {}
        /\ (req.singer_name # <<>> /\ req.number_of_videos = 11
              /\ req.audio_duration_sec = 21)
           => exc.kind # "InvalidRequest"
C1_Witness ==
    /\ pc = "raised"
    /\ req.singer_name # <<>>
    /\ req.number_of_videos = 10
    /\ req.audio_duration_sec = 21
    /\ exc.kind = "InvalidRequest"
    /\ search_calls = 0

\* C2: when the caller gave no persistent directory, the working directory
\* no longer exists once create_mashup has returned or raised, whichever
\* step ended it.
C2_WorkDirRemovedOnExit ==
    (Exited /\ req.base_work_dir = None) => <<"tmp">> \notin dirs

\* C3: when _download_videos returns, what it returns has exactly `count`
\* items: the first `count` entries of the successful pass's search result
\* that are not None and have their file in the videos directory, in the
\* order the search gave them.
C3_ReturnsFirstCount ==
    [][(pc = "download_finish" /\ pc' = "trim") =>
          /\ ~last_pass.aborted
          /\ Len(videos') = req.number_of_videos
          /\ \A k \in 1..req.number_of_videos :
                videos'[k] = last_pass.entries[
                    KthGood(last_pass.entries, video_files[work_dir], k)].id]_vars
C3_Witness ==
    /\ pc = "trim"
    /\ Len(videos) = req.number_of_videos
    /\ videos[1] > videos[2]
    /\ Cardinality(video_files[work_dir]) > Len(videos)

C5_PassCountsOwnDownloads ==
    (pc = "download_finish" /\ Len(downloaded) >= req.number_of_videos)
        => Cardinality(Written(last_pass.entries)) >= req.number_of_videos

\* C6: when at least one of the videos has usable audio and no media call is
\* made to fail, _trim_audio raises nothing and returns one clip per video
\* with usable audio, in the order of the videos, and writes no other clip.
C6_OneClipPerUsableVideo ==
    (TrimRan /\ UsableVideos # <<>>) =>
        /\ exc.kind # "NoExtractableAudio"
        /\ ~TrimFaulted =>
            /\ Len(clipped_audios) = Len(UsableVideos)
            /\ \A k \in DOMAIN clipped_audios :
                  videos[clipped_audios[k]] = UsableVideos[k]
            /\ pc \in {"merge", "copy", "finally"} =>
                  /\ Cardinality(audio_files[work_dir]) = Len(UsableVideos)
                  /\ \A k \in DOMAIN clipped_audios :
                        AudioFileClip(audio_files[work_dir], clipped_audios[k])[1].src
                            = UsableVideos[k]
C6_Witness ==
    /\ pc = "merge"
    /\ \E i \in DOMAIN videos : ~media[videos[i]].audio
    /\ clipped_audios # <<>>
    /\ clipped_audios[1] > 1
    /\ Len(clipped_audios) < Len(videos)

\* C7: when none of the videos has usable audio, create_mashup ends with the
\* NoExtractableAudio domain error (unless opening a video was made to
\* fail), _merge_audio is never called and the destination is not written.
C7_NoAudioNoMerge ==
    (TrimRan /\ UsableVideos = <<>>) =>
        /\ pc \in {"finally", "raised"}
        /\ merge_calls = 0
        /\ dest_file.state \in {"absent", "old"}
        /\ \A r \in Roots : ~merged_file[r].exists
        /\ ~TrimFaulted => exc = MashupError("NoExtractableAudio", 0)
C7_Witness ==
    /\ pc = "raised"
    /\ videos # <<>>
    /\ exc.kind = "NoExtractableAudio"
    /\ merge_calls = 0
    /\ dest_file.state = "old"

\* What a merged file must hold: the clips of the videos with usable audio,
\* in the order _download_videos accepted the videos, and nothing else.
InAcceptedOrder(content) ==
    /\ Len(content) = Len(UsableVideos)
    /\ \A k \in DOMAIN content : content[k].src = UsableVideos[k]
    /\ Duration(content) = TotalLength(UsableVideos)

\* C8: the merged file, and the file copied to the destination, holds the
\* clips in the order their videos were accepted (never re-sorted), and
\* lasts as long as the clips together.
C8_MergedInInputOrder ==
    /\ \A r \in Roots : merged_file[r].exists => InAcceptedOrder(merged_file[r].content)
    /\ dest_file.state = "complete" => InAcceptedOrder(dest_file.content)
C8_Witness ==
    /\ pc = "returned"
    /\ dest_file.state = "complete"
    /\ Len(dest_file.content) >= 2
    /\ dest_file.content[1].src > dest_file.content[2].src

\* C9: every clip written lasts min(audio_duration_sec, track duration) > 0
\* seconds, and the final file lasts at most number_of_videos *
\* audio_duration_sec seconds and at least as long as the clips together.
C9_DurationBounds ==
    /\ \A r \in Roots : \A f \in audio_files[r] : \A i \in DOMAIN f.content :
          /\ f.content[i].dur = ClipLength(f.content[i].src)
          /\ f.content[i].dur > 0
    /\ dest_file.state = "complete" =>
          /\ \A i \in DOMAIN dest_file.content :
                /\ dest_file.content[i].dur = ClipLength(dest_file.content[i].src)
                /\ dest_file.content[i].dur > 0
          /\ Duration(dest_file.content)
                <= req.number_of_videos * req.audio_duration_sec
          /\ Duration(dest_file.content) >= FilesLength(audio_files[work_dir])
C9_Witness ==
    /\ pc = "finally"
    /\ dest_file.state = "complete"
    /\ audio_files[work_dir] # {}
    /\ Duration(dest_file.content) = FilesLength(audio_files[work_dir])
    /\ Duration(dest_file.content) < req.number_of_videos * req.audio_duration_sec
    /\ \E i \in DOMAIN dest_file.content : dest_file.content[i].dur = ShortTrack

\* C10: whatever step fails, what create_mashup raises is a MashupError.
C10_OnlyMashupErrorEscapes ==
    pc = "raised" => exc.type = "MashupError"

\* C11: the destination never holds a part of the new file: it holds what it
\* held before the call, or the complete merged file.
C11_NeverPartialAtDestination ==
    dest_file.state # "partial"

\* C13: when the transcoder is found neither on the search path nor by the
\* bundled resolver, create_mashup raises the ToolUnavailable domain error
\* with no working area created and no search made; the bundled resolver is
\* called only when the search path gave nothing, and at most once.
C13_ToolUnavailableBeforeWork ==
    /\ fallback_calls > 0 => (path_probe = None /\ fallback_calls = 1)
    /\ (path_probe = None /\ ffmpeg_bin = None) =>
          /\ pc = "raised"
          /\ exc = MashupError("ToolUnavailable", 0)
          /\ temp_root = None /\ work_dir = None /\ dirs = {}
          /\ search_calls = 0
          /\ \A r \in Roots : video_files[r] = {}
    /\ (path_probe \notin {"unprobed", None}) => ffmpeg_bin = path_probe
    /\ exc.kind = "ToolUnavailable" => (path_probe = None /\ ffmpeg_bin = None)
C13_Witness ==
    /\ pc = "raised"
    /\ exc.kind = "ToolUnavailable"
    /\ path_probe = None
    /\ fallback_calls = 1
    /\ search_calls = 0

\* C14: _download_videos tries the strategies in the order no cookies, chrome,
\* edge, firefox, each at most once (at most four passes), gives the
\* configured cookie file to every pass, and starts no pass once a pass has
\* collected at least `count` files.
C14_StrategiesInFixedOrder ==
    /\ search_calls <= 4
    /\ pc \in {"pass", "download_finish"} =>
          /\ Len(tried) <= 4
          /\ attempt = Len(tried) + 1
          /\ \A i \in 1..Len(tried) :
                /\ tried[i].cookiesfrombrowser = <<None, "chrome", "edge", "firefox">>[i]
                /\ tried[i].cookiefile = (IF cookie_file # "" THEN cookie_file ELSE None)
          /\ search_calls = Len(tried)
    /\ pc = "pass" => (Len(tried) < 4 /\ Len(downloaded) < req.number_of_videos)
    /\ (pc = "download_finish" /\ Len(downloaded) < req.number_of_videos) => Len(tried) = 4
C14_Witness ==
    /\ pc = "download_finish"
    /\ Len(tried) = 2
    /\ cookie_file # ""
    /\ tried[2] = [cookiefile |-> cookie_file, cookiesfrombrowser |-> "chrome"]
    /\ Len(downloaded) >= req.number_of_videos

\* C15: a pass whose search returned is never ended by a bad candidate: its
\* list is exactly the candidates that are not None and whose file is in the
\* videos directory, in discovery order, those after a bad candidate included.
C15_BadCandidateSkipped ==
    (pc \in {"pass", "download_finish"} /\ tried # <<>> /\ ~last_pass.aborted) =>
        LET entries == last_pass.entries
            files == video_files[work_dir]
            good == GoodPos(entries, files)
        IN  /\ exc = NoExc
            /\ Len(downloaded) = Cardinality(good)
            /\ \A k \in 1..Len(downloaded) :
                  downloaded[k] = entries[KthGood(entries, files, k)].id
C15_Witness ==
    /\ pc \in {"pass", "download_finish"}
    /\ tried # <<>> /\ ~last_pass.aborted
    /\ Len(last_pass.entries) > 2
    /\ ~last_pass.entries[1].present
    /\ last_pass.entries[2].present
    /\ last_pass.entries[2].id \notin video_files[work_dir]
    /\ Len(downloaded) = Len(last_pass.entries) - 2
    /\ downloaded[1] = last_pass.entries[3].id

\* The steps of create_mashup as the claim orders them, and as lines 167-210
\* order them.
ClaimedOrder ==
    <<"validate", "resolve_tool", "work_area", "acquire", "extract", "assemble", "copy">>
CodeOrder ==
    <<"validate", "resolve_tool", "resolve_dest", "work_area", "acquire", "extract",
      "assemble", "copy">>
\* The steps entered, cleanup apart.
MainSteps == SelectSeq(steps, LAMBDA x : x # "cleanup")
IsPrefix(a, b) == Len(a) <= Len(b) /\ SubSeq(b, 1, Len(a)) = a
Entered(step) == \E i \in DOMAIN steps : steps[i] = step
\* Each step entered found the result of the one before it, and nothing but
\* cleanup follows a failure.
StepsComplete ==
    /\ Entered("cleanup") => steps[Len(steps)] = "cleanup" /\ Len(MainSteps) = Len(steps) - 1
    /\ exc # NoExc => pc \in {"finally", "raised", "merge_raised"}
    /\ Entered("resolve_tool") => req # NoReq
    /\ Entered("work_area") => ffmpeg_bin # None
    /\ Entered("acquire") =>
          {<<work_dir>>, <<work_dir, "videos">>, <<work_dir, "audios">>} \subseteq
              (IF pc \in {"returned", "raised"} /\ temp_root # None
               THEN dirs \cup {<<"tmp">>, <<"tmp", "videos">>, <<"tmp", "audios">>}
               ELSE dirs)
    /\ Entered("extract") => Len(videos) = req.number_of_videos
    /\ Entered("assemble") => clipped_audios # <<>>
    /\ Entered("copy") => merge_calls = 1 /\ exc.cause # "write_audiofile merged"
    /\ pc = "returned" => (MainSteps = CodeOrder /\ dest_file.state = "complete")

\* C16 as claimed: the steps run in the order validate, resolve tool, working
\* area, acquire, extract, assemble, copy, the destination's parent
\* directories being made by the copy step, and after a failure only cleanup
\* runs.
C16_StepsInClaimedOrder ==
    /\ IsPrefix(SelectSeq(MainSteps, LAMBDA x : x # "resolve_dest"), ClaimedOrder)
    /\ <<"out">> \in dirs => Entered("copy")
    /\ StepsComplete

\* C16: the steps run in the order validate, resolve tool, resolve the
\* destination and make its parent directories, working area, acquire,
\* extract, assemble, copy; each starts after the one before it completed,
\* and after a failure only cleanup runs.
C16_StepsInCodeOrder ==
    /\ IsPrefix(MainSteps, CodeOrder)
    /\ <<"out">> \in dirs => Entered("resolve_dest")
    /\ Entered("work_area") => <<"out">> \in dirs
    /\ StepsComplete
C16_Witness ==
    /\ pc = "returned"
    /\ steps = CodeOrder \o <<"cleanup">>
    /\ <<"out">> \in dirs
    /\ dest_file.state = "complete"

\* C17: no media reader opened by _trim_audio or _merge_audio is still open
\* once the step has returned or raised.
C17_NoHandleLeftOpen ==
    open_handles = 0

\* C18: no step removes a directory or a file of the working directory the
\* caller supplied; the only directories ever removed are those of the
\* temporary directory create_mashup made itself.
C18_PersistentDirKept ==
    [][/\ \A d \in dirs \ dirs' : Head(d) = "tmp" /\ temp_root = "tmp"
       /\ video_files["persist"] \subseteq video_files'["persist"]
       /\ audio_files["persist"] \subseteq audio_files'["persist"]
       /\ merged_file["persist"].exists => merged_file'["persist"] = merged_file["persist"]
      ]_vars
C18_Witness ==
    /\ pc = "returned"
    /\ req.base_work_dir = "persist"
    /\ temp_root = None
    /\ {<<"persist">>, <<"persist", "videos">>, <<"persist", "audios">>} \subseteq dirs
    /\ Cardinality(video_files["persist"]) >= req.number_of_videos
    /\ audio_files["persist"] # {}
    /\ merged_file["persist"].exists

\* C19: a call of create_mashup never ends with the EmptyClipSet error and
\* calls _merge_audio only with a non-empty list; _merge_audio called by
\* itself with an empty list raises the EmptyClipSet domain error and writes
\* no file.
C19_EmptyClipSetOnlyDirect ==
    /\ steps # <<>> =>
          /\ exc.kind # "EmptyClipSet" /\ exc.cause # "EmptyClipSet"
          /\ (pc = "merge" \/ merge_calls > 0) => clipped_audios # <<>>
          /\ merge_calls <= 1
    /\ pc \in {"merge_raised", "merge_returned"} =>
          /\ pc = "merge_raised"
          /\ exc = MashupError("EmptyClipSet", 0)
          /\ \A r \in Roots : ~merged_file[r].exists
          /\ dest_file.state \in {"absent", "old"}
          /\ open_handles = 0
C19_Witness ==
    /\ pc = "merge_raised"
    /\ steps = <<>>
    /\ merge_calls = 1
    /\ exc.kind = "EmptyClipSet"
    /\ ~merged_file["persist"].exists

\* C20: the destination file changes only in the copy step, which runs only
\* after _merge_audio has written the merged file: a call that fails before
\* it leaves the destination as it found it.
C20_DestinationUntouchedBeforeCopy ==
    [][dest_file' # dest_file =>
          /\ pc = "copy"
          /\ exc = NoExc
          /\ Entered("assemble")
          /\ merged_file[work_dir].exists]_vars
C20_Witness ==
    /\ pc = "raised"
    /\ Entered("assemble")
    /\ ~Entered("copy")
    /\ exc.type = "MashupError"
    /\ dest_file = OldFile

\* Two calls under way at once, and two calls given the same base_work_dir.
Running(r) == requests[r].pc \notin {"idle", "done"} /\ requests[r].work # None
SameBase(r1, r2) == requests[r1].base # None /\ requests[r1].base = requests[r2].base

\* C12 as claimed: two concurrent calls always work in distinct directories,
\* neither reads, overwrites or deletes a file the other wrote, and they
\* share no mutable state.
C12_RequestsIsolated ==
    /\ \A r1, r2 \in Reqs :
          (r1 # r2 /\ Running(r1) /\ Running(r2)) => requests[r1].work # requests[r2].work
    /\ crossings = {}

\* What does hold of two concurrent calls (C12): when they were not given
\* the same base_work_dir they work in distinct directories and neither
\* reads, overwrites or deletes a file the other wrote; all they share is
\* the IMAGEIO_FFMPEG_EXE entry of os.environ, which is set once.
IsolatedOwnAreas ==
    /\ \A r1, r2 \in Reqs :
          (r1 # r2 /\ ~SameBase(r1, r2)) =>
              /\ (Running(r1) /\ Running(r2)) => requests[r1].work # requests[r2].work
              /\ Running(r2) =>
                    \A f \in shared_fs.files : f.owner = r1 => f.dir # requests[r2].work
              /\ \A c \in crossings : c.what = "env"
    /\ \A c \in crossings : c.what = "env" =>
          (environ.writer = c.owner /\ environ.value = "ffmpeg")
    /\ environ.value = "unset" <=> environ.writer = None
IsolatedOwnAreas_Witness ==
    /\ requests["r1"].pc = "merge"
    /\ requests["r2"].pc = "trim"
    /\ requests["r1"].singer = requests["r2"].singer
    /\ requests["r1"].base = None /\ requests["r2"].base = None
    /\ requests["r1"].work # requests["r2"].work
    /\ \E f \in shared_fs.files : f.owner = "r1" /\ f.kind = "audios"
    /\ \E f \in shared_fs.files : f.owner = "r2" /\ f.kind = "videos"
    /\ crossings # {}
====
